---- MODULE Spec2Model ----
(***************************************************************************)
(* Model of scripts/userscripts/readinglist.py: a mailbox used as a job    *)
(* queue (IMAP4JobQueue), the message-to-entry transformation              *)
(* (Robot.entry_for), the merge of new entries into the "Reading list"     *)
(* page (Robot.treat_page) and the run that sequences them (_main).        *)
(*                                                                         *)
(* Text is modelled character by character: a Python str is a sequence of  *)
(* one-character strings, so stripping, splitting and the regular          *)
(* expressions of the source are computed, not assumed.  An optional value *)
(* (None or a str) is a sequence of length 0 or 1 holding the str.         *)
(***************************************************************************)
EXTENDS Integers, Sequences, FiniteSets, TLC

VARIABLES
    mailbox,    \* server side: sequence of [uid, msg, deleted], in sequence-number order
    mailbox0,   \* the mailbox as it was when the run started (history)
    nextUid,    \* the UID the server gives the next delivered message
    delivered,  \* how many messages other parties delivered during the run
    pc,         \* position of the run in _main / generator / treat_page
    fetched,    \* what FETCH 1:* returned: sequence of [uid, msg]
    idx,        \* index in fetched of the message the generator handles next
    entries,    \* Robot.entries
    marked,     \* UIDs this run sent UID STORE +FLAGS \Deleted for, accepted or not
    skipped,    \* UIDs of the fetched messages entry_for returned None for
    cmds,       \* every command issued so far, with its response (history)
    pageText,   \* text of the wiki page "Reading list"
    written,    \* the text handed to put_current (None before)
    putResult,  \* "none", or how put_current ended: "ok", "false", "raise"
    exc,        \* the exception that ended the run inside _main's try (NoError before)
    exit,       \* "none", or how _main ends after the exception: "silent", "raised"
    mD, mE,     \* treat_page as a function: page text and entries it is applied to
    mOut1,      \* ... the text it submits for (mD, mE)
    mOut2,      \* ... the text it submits for (mOut1, mE)
    eMsg,       \* entry_for as a function: the decoded message it is applied to
    eOut,       \* ... what it returned
    fpc,        \* position of the function specifications
    lpc,        \* LogScrobbler: "outside", "active" (inside the with block), "exited"
    lFilter,    \* ... whether it is installed as a filter of the logger
    records,    \* ... self.records
    logged,     \* every record logged while the context was active, in order (history)
    emitted,    \* every record that reached the handlers of the logger, in order
    excType     \* ... whether the with block ended by an exception (exc_type is not None)

vars == <<mailbox, mailbox0, nextUid, delivered, pc, fetched, idx, entries, marked,
          skipped, cmds, pageText, written, putResult, exc, exit,
          mD, mE, mOut1, mOut2, eMsg, eOut, fpc,
          lpc, lFilter, records, logged, emitted, excType>>

runVars == <<mailbox, mailbox0, nextUid, delivered, pc, fetched, idx, entries, marked,
             skipped, cmds, pageText, written, putResult, exc, exit>>

funVars == <<mD, mE, mOut1, mOut2, eMsg, eOut, fpc>>

logVars == <<lpc, lFilter, records, logged, emitted, excType>>

-----------------------------------------------------------------------------
(* Python values *)

None == <<>>

Some(s) == <<s>>

IsNone(o) == Len(o) = 0

Truthy(o) == Len(o) = 1 /\ Len(o[1]) > 0

\* str.isspace() / the regular expression class \s, on the characters of the model
IsSpace(c) == c \in {" ", "\t", "\n", "\r"}

Max(S) == CHOOSE x \in S : \A y \in S : y <= x

Min(S) == CHOOSE x \in S : \A y \in S : x <= y

\* s[i:] with a 1-based i
Drop(s, i) == SubSeq(s, i, Len(s))

RStrip(s) ==
    LET keep == {i \in 1..Len(s) : ~IsSpace(s[i])}
    IN  IF keep = {} THEN <<>> ELSE SubSeq(s, 1, Max(keep))

LStrip(s) ==
    LET keep == {i \in 1..Len(s) : ~IsSpace(s[i])}
    IN  IF keep = {} THEN <<>> ELSE Drop(s, Min(keep))

Strip(s) == LStrip(RStrip(s))

\* s.startswith(p, i-1)
MatchAt(s, i, p) ==
    /\ i + Len(p) - 1 <= Len(s)
    /\ \A k \in 1..Len(p) : s[i + k - 1] = p[k]

StartsWith(s, p) == MatchAt(s, 1, p)

EndsWith(s, p) == Len(p) <= Len(s) /\ MatchAt(s, Len(s) - Len(p) + 1, p)

Contains(s, c) == \E i \in 1..Len(s) : s[i] = c

\* s.split(sep) for a one-character sep
RECURSIVE SplitOn(_, _)
SplitOn(s, sep) ==
    LET at == {i \in 1..Len(s) : s[i] = sep}
    IN  IF at = {} THEN <<s>>
        ELSE <<SubSeq(s, 1, Min(at) - 1)>> \o SplitOn(Drop(s, Min(at) + 1), sep)

\* sep.join(parts)
RECURSIVE Join(_, _)
Join(parts, sep) ==
    IF Len(parts) = 0 THEN <<>>
    ELSE IF Len(parts) = 1 THEN parts[1]
    ELSE parts[1] \o sep \o Join(Tail(parts), sep)

\* the position after the run of whitespace that starts at i
RECURSIVE SkipSpace(_, _)
SkipSpace(s, i) ==
    IF i <= Len(s) /\ IsSpace(s[i]) THEN SkipSpace(s, i + 1) ELSE i

-----------------------------------------------------------------------------
(* Robot.treat_page: the merge of the new entries into the page text *)

S_NL == <<"\n">>

S_Bullet == <<"\n", "*", " ">>

S_At == <<"{", "{", "a", "t", "|">>

S_AtEnd == <<"}", "}">>

\* len(m.group(0)) for m = re.match(r"\*\s*(\{\{at\|.*?\}\}\s*)?", line), -1 when m is None.
\* The optional group is tried first and .*? stops at the first "}}"; when the
\* group cannot match, the match ends after the whitespace that follows the "*".
EntryMatchLen(line) ==
    IF Len(line) = 0 \/ line[1] # "*" THEN -1
    ELSE LET j == SkipSpace(line, 2)
             ends == {p \in (j + 5)..(Len(line) - 1) :
                         /\ MatchAt(line, p, S_AtEnd)
                         /\ \A q \in (j + 5)..(p - 1) : line[q] # "\n"}
         IN  IF MatchAt(line, j, S_At) /\ ends # {}
             THEN SkipSpace(line, Min(ends) + 2) - 1
             ELSE j - 1

IsEntryLine(line) == EntryMatchLen(line) >= 0

\* entry = line[len(m.group(0)):]
DedupKey(line) == Drop(line, EntryMatchLen(line) + 1)

\* mutant of StripDuplicates: the key is never recorded as seen
RECURSIVE StripDuplicates_NoSeen(_, _)
StripDuplicates_NoSeen(lines, seen) ==
    IF Len(lines) = 0 THEN <<>>
    ELSE IF IsEntryLine(Head(lines)) /\ DedupKey(Head(lines)) \in seen
    THEN StripDuplicates_NoSeen(Tail(lines), seen)
    ELSE <<Head(lines)>> \o StripDuplicates_NoSeen(Tail(lines), seen)

\* mutant of StripDuplicates: a line that is no entry is looked up in seen too,
\* under the whole line as its key
RECURSIVE StripDuplicates_AnyLine(_, _)
StripDuplicates_AnyLine(lines, seen) ==
    IF Len(lines) = 0 THEN <<>>
    ELSE LET line == Head(lines)
             key == IF IsEntryLine(line) THEN DedupKey(line) ELSE line
         IN  IF key \in seen
             THEN StripDuplicates_AnyLine(Tail(lines), seen)
             ELSE <<line>> \o StripDuplicates_AnyLine(Tail(lines), seen \cup {key})

\* the loop of lines 117-125: lines is what is left to read, seen the dict's keys
RECURSIVE StripDuplicates(_, _)
StripDuplicates(lines, seen) ==
    IF Len(lines) = 0 THEN <<>>
    ELSE LET line == Head(lines)
         IN  IF IsEntryLine(line)
             THEN IF DedupKey(line) \in seen
                  THEN StripDuplicates(Tail(lines), seen)
                  ELSE <<line>> \o StripDuplicates(Tail(lines), seen \cup {DedupKey(line)})
             ELSE <<line>> \o StripDuplicates(Tail(lines), seen)

\* the text treat_page hands to put_current for page text `text` and entries `ents`
MergedText(text, ents) ==
    LET bits == <<RStrip(text)>> \o ents
        joined == Join(bits, S_Bullet) \o S_NL
        lines == StripDuplicates(SplitOn(RStrip(joined), "\n"), {})
    IN  Join(lines, S_NL) \o S_NL

-----------------------------------------------------------------------------
(* Characters: case folding (re.I, str.lower) and percent-decoding *)

UpperChars ==
    <<"A", "B", "C", "D", "E", "F", "G", "H", "I", "J", "K", "L", "M", "N", "O", "P", "Q",
    "R", "S", "T", "U", "V", "W", "X", "Y", "Z">>

LowerChars ==
    <<"a", "b", "c", "d", "e", "f", "g", "h", "i", "j", "k", "l", "m", "n", "o", "p", "q",
    "r", "s", "t", "u", "v", "w", "x", "y", "z">>

HexChars ==
    <<"0", "1", "2", "3", "4", "5", "6", "7", "8", "9", "a", "b", "c", "d", "e", "f">>

\* chr(32) .. chr(95), in order
AsciiLow ==
    <<" ", "!", "\"", "#", "$", "%", "&", "'", "(", ")", "*", "+", ",", "-", ".", "/", "0",
    "1", "2", "3", "4", "5", "6", "7", "8", "9", ":", ";", "<", "=", ">", "?", "@", "A",
    "B", "C", "D", "E", "F", "G", "H", "I", "J", "K", "L", "M", "N", "O", "P", "Q", "R",
    "S", "T", "U", "V", "W", "X", "Y", "Z", "[", "\\", "]", "^", "_">>

\* chr(97) .. chr(126), in order
AsciiHigh ==
    <<"a", "b", "c", "d", "e", "f", "g", "h", "i", "j", "k", "l", "m", "n", "o", "p", "q",
    "r", "s", "t", "u", "v", "w", "x", "y", "z", "{", "|", "}", "~">>

\* the codes unquote is modelled for: printable ASCII but the grave accent (96)
IsAsciiCode(n) == n - 31 \in 1..Len(AsciiLow) \/ n - 96 \in 1..Len(AsciiHigh)

Chr(n) == IF n - 31 \in 1..Len(AsciiLow) THEN AsciiLow[n - 31] ELSE AsciiHigh[n - 96]

Lower(c) ==
    IF \E i \in 1..Len(UpperChars) : UpperChars[i] = c
    THEN LowerChars[CHOOSE i \in 1..Len(UpperChars) : UpperChars[i] = c]
    ELSE c

LowerStr(s) == [i \in 1..Len(s) |-> Lower(s[i])]

\* a match of the literal p at s[i-1:] under re.I
MatchAtCI(s, i, p) ==
    /\ i + Len(p) - 1 <= Len(s)
    /\ \A k \in 1..Len(p) : Lower(s[i + k - 1]) = Lower(p[k])

IsHex(c) == \E i \in 1..Len(HexChars) : HexChars[i] = Lower(c)

HexVal(c) == (CHOOSE i \in 1..Len(HexChars) : HexChars[i] = Lower(c)) - 1

\* urllib.parse.unquote: every %XY with two hex digits becomes the character of
\* that code and any other "%" stays.  The tables cover the printable ASCII codes;
\* an escape outside it (a control or UTF-8 byte) is outside the inputs modelled
\* and is left as it is.
RECURSIVE unquote(_)
unquote(s) ==
    IF Len(s) = 0 THEN <<>>
    ELSE IF /\ s[1] = "%"
            /\ Len(s) >= 3
            /\ IsHex(s[2]) /\ IsHex(s[3])
            /\ IsAsciiCode(16 * HexVal(s[2]) + HexVal(s[3]))
         THEN <<Chr(16 * HexVal(s[2]) + HexVal(s[3]))>> \o unquote(Drop(s, 4))
         ELSE <<s[1]>> \o unquote(Tail(s))

\* s.replace(a, b) for one-character a and b
ReplaceChar(s, a, b) == [i \in 1..Len(s) |-> IF s[i] = a THEN b ELSE s[i]]

-----------------------------------------------------------------------------
(* Robot.REWRITES and Robot.entry_for *)

S_Wikipedia == <<"w", "i", "k", "i", "p", "e", "d", "i", "a", ":">>

S_YouTube ==
    <<"h", "t", "t", "p", "s", ":", "/", "/", "w", "w", "w", ".", "y", "o", "u", "t", "u", "b", "e", ".", "c", "o", "m", "/", "w", "a", "t", "c", "h", "?", "v", "=">>

S_Igshid == <<"?", "i", "g", "s", "h", "i", "d", "=">>

\* the strings r"^https?://en\.(m\.)?wikipedia\.org/wiki/" matches, case apart
WikipediaPrefixes ==
    { <<"h", "t", "t", "p", ":", "/", "/", "e", "n", ".", "w", "i", "k", "i", "p", "e", "d", "i", "a", ".", "o", "r", "g", "/", "w", "i", "k", "i", "/">>,
      <<"h", "t", "t", "p", "s", ":", "/", "/", "e", "n", ".", "w", "i", "k", "i", "p", "e", "d", "i", "a", ".", "o", "r", "g", "/", "w", "i", "k", "i", "/">>,
      <<"h", "t", "t", "p", ":", "/", "/", "e", "n", ".", "m", ".", "w", "i", "k", "i", "p", "e", "d", "i", "a", ".", "o", "r", "g", "/", "w", "i", "k", "i", "/">>,
      <<"h", "t", "t", "p", "s", ":", "/", "/", "e", "n", ".", "m", ".", "w", "i", "k", "i", "p", "e", "d", "i", "a", ".", "o", "r", "g", "/", "w", "i", "k", "i", "/">> }

\* the strings r"^https?://youtu\.be/" matches, case apart
YouTubePrefixes ==
    { <<"h", "t", "t", "p", ":", "/", "/", "y", "o", "u", "t", "u", ".", "b", "e", "/">>,
      <<"h", "t", "t", "p", "s", ":", "/", "/", "y", "o", "u", "t", "u", ".", "b", "e", "/">> }

\* re.sub("^" + one of prefixes, repl, s, 1, re.I): at most one prefix matches
SubPrefix(prefixes, repl, s) ==
    IF \E p \in prefixes : MatchAtCI(s, 1, p)
    THEN repl \o Drop(s, Len(CHOOSE p \in prefixes : MatchAtCI(s, 1, p)) + 1)
    ELSE s

\* [a-z0-9+/] under re.I
IsBase64Char(c) ==
    \/ \E i \in 1..Len(LowerChars) : LowerChars[i] = Lower(c)
    \/ c \in {"0", "1", "2", "3", "4", "5", "6", "7", "8", "9", "+", "/"}

RECURSIVE SkipBase64(_, _)
SkipBase64(s, i) ==
    IF i <= Len(s) /\ IsBase64Char(s[i]) THEN SkipBase64(s, i + 1) ELSE i

\* the position after at most n "=" from position i on
RECURSIVE SkipEquals(_, _, _)
SkipEquals(s, i, n) ==
    IF n > 0 /\ i <= Len(s) /\ s[i] = "=" THEN SkipEquals(s, i + 1, n - 1) ELSE i

\* re.sub(r"\?igshid=[a-z0-9+/]*={0,2}", "", s, 1, re.I): the leftmost match goes
SubIgshid(s) ==
    LET at == {i \in 1..Len(s) : MatchAtCI(s, i, S_Igshid)}
    IN  IF at = {} THEN s
        ELSE LET i == Min(at)
                 j == SkipEquals(s, SkipBase64(s, i + Len(S_Igshid)), 2)
             IN  SubSeq(s, 1, i - 1) \o Drop(s, j)

\* the rules of REWRITES, in the order of the tuple
REWRITES == <<"wikipedia", "youtu.be", "igshid">>

\* re.sub(pattern, repl, entry, 1, re.I) for one rule
Rewrite(rule, s) ==
    CASE rule = "wikipedia" -> SubPrefix(WikipediaPrefixes, S_Wikipedia, s)
      [] rule = "youtu.be" -> SubPrefix(YouTubePrefixes, S_YouTube, s)
      [] rule = "igshid" -> SubIgshid(s)

\* for pattern, repl in cls.REWRITES: entry = re.sub(...)
RECURSIVE ApplyRewrites(_, _)
ApplyRewrites(rules, s) ==
    IF Len(rules) = 0 THEN s ELSE ApplyRewrites(Tail(rules), Rewrite(Head(rules), s))

\* body.split(maxsplit=1) of a stripped, non-empty body: <<first word, the rest or None>>
SplitFirst(b) ==
    LET ws == {i \in 1..Len(b) : IsSpace(b[i])}
    IN  IF ws = {} THEN <<b, None>>
        ELSE <<SubSeq(b, 1, Min(ws) - 1), Some(Drop(b, SkipSpace(b, Min(ws))))>>

\* mutant of Scheme: the first four characters, as entry.lower().startswith("http")
\* would test
Scheme_FirstFour(entry) == LowerStr(SubSeq(entry, 1, IF Len(entry) < 4 THEN Len(entry) ELSE 4))

\* entry.split(":", 1)[0].lower()
Scheme(entry) == LowerStr(Head(SplitOn(entry, ":")))

\* mutant of FormatLink: the underscores of a Wikipedia title are kept
FormatLink_Underscores(entry, subject) ==
    IF StartsWith(entry, S_Wikipedia)
    THEN LET link == <<"[", "[">> \o unquote(entry) \o <<"]", "]">>
         IN  IF Truthy(subject)
             THEN link \o <<" ", "'", "'", "<", "q", ">">> \o subject[1]
                       \o <<"<", "/", "q", ">", "'", "'">>
             ELSE link
    ELSE IF Truthy(subject)
    THEN LET pair == entry \o <<" ">> \o subject[1]
         IN  IF ~Contains(pair, "[") /\ ~Contains(pair, "]")
             THEN <<"[">> \o pair \o <<"]">>
             ELSE pair
    ELSE entry

\* mutant of FormatLink: only the token is searched for brackets
FormatLink_TokenOnly(entry, subject) ==
    IF StartsWith(entry, S_Wikipedia)
    THEN LET link == <<"[", "[">> \o ReplaceChar(unquote(entry), "_", " ") \o <<"]", "]">>
         IN  IF Truthy(subject)
             THEN link \o <<" ", "'", "'", "<", "q", ">">> \o subject[1] \o <<"<", "/", "q", ">", "'", "'">>
             ELSE link
    ELSE IF Truthy(subject)
    THEN LET pair == entry \o <<" ">> \o subject[1]
         IN  IF ~Contains(entry, "[") /\ ~Contains(entry, "]")
             THEN <<"[">> \o pair \o <<"]">>
             ELSE pair
    ELSE entry

\* lines 162-170: the link, from the rewritten token and the stripped subject
FormatLink(entry, subject) ==
    IF StartsWith(entry, S_Wikipedia)
    THEN LET link == <<"[", "[">> \o ReplaceChar(unquote(entry), "_", " ") \o <<"]", "]">>
         IN  IF Truthy(subject)
             THEN link \o <<" ", "'", "'", "<", "q", ">">> \o subject[1] \o <<"<", "/", "q", ">", "'", "'">>
             ELSE link
    ELSE IF Truthy(subject)
    THEN LET pair == entry \o <<" ">> \o subject[1]
         IN  IF ~Contains(pair, "[") /\ ~Contains(pair, "]")
             THEN <<"[">> \o pair \o <<"]">>
             ELSE pair
    ELSE entry

\* lines 152-153: a token in angle brackets loses them
StripAngles(lead) ==
    IF StartsWith(lead, <<"<">>) /\ EndsWith(lead, <<">">>)
    THEN SubSeq(lead, 2, Len(lead) - 1)
    ELSE lead

\* lines 171-175: the timestamp marker in front, the rest of the body behind
AddDateAndBody(entry, date, body) ==
    LET dated == IF IsNone(date) THEN entry
                 ELSE S_At \o date[1] \o <<"}", "}", " ">> \o entry
    IN  IF IsNone(body) THEN dated ELSE dated \o <<" ">> \o body[1]

\* Robot.entry_for(msg): None (skip) or Some(entry).  msg is the decoded message:
\* [to, cc, bcc, subject, date: the header or None; body: the content of
\* msg.get_body(('plain',)) or None]
entry_for(msg) ==
    IF IsNone(msg.body) THEN None
    ELSE IF Len(Strip(msg.body[1])) = 0 THEN None
    ELSE LET parts == SplitFirst(Strip(msg.body[1]))
             lead == parts[1]
             body == parts[2]
             entry == StripAngles(lead)
             subject == IF IsNone(msg.subject) THEN None ELSE Some(Strip(msg.subject[1]))
         IN  IF Len(lead) = 0 THEN None
             ELSE IF Truthy(subject) /\ Scheme(entry) \notin {<<"h", "t", "t", "p">>,
                                                               <<"h", "t", "t", "p", "s">>}
             THEN None
             ELSE Some(AddDateAndBody(FormatLink(ApplyRewrites(REWRITES, entry), subject),
                                      msg.date, body))

-----------------------------------------------------------------------------
(* The mailbox and the messages in it *)

\* the most messages in the mailbox when the run starts
MaxMsgs == 3

\* the most messages other parties deliver while the run is under way
MaxDeliver == 1

Message(to, subject, date, body) ==
    [to |-> to, cc |-> None, bcc |-> None, subject |-> subject, date |-> date, body |-> body]

\* the raw messages of the model, as email_from_bytes decodes them:
\*   1  a bare link                      2  a link sent to a visible recipient (To)
\*   3  an empty body                    4  a subject with a link that is not http(s)
RawMessages ==
    << Message(None, None, None, Some(<<"h", "t", "t", "p", ":", "/", "/", "a", "\n">>)),
       Message(Some(<<"x", "@", "y">>), None, None, Some(<<"h", "t", "t", "p", ":", "/", "/", "b", "\n">>)),
       Message(None, None, None, Some(<<"\n">>)),
       Message(None, Some(<<"s">>), None, Some(<<"f", "t", "p", ":", "c", "\n">>)) >>

\* what another party delivers during the run
DeliveredData == {1}

\* email.message_from_bytes(data, policy=email.policy.default)
email_from_bytes(data) == RawMessages[data]

\* msg["to"], msg["cc"] or msg["bcc"] is present and not empty
HasRecipient(msg) == Truthy(msg.to) \/ Truthy(msg.cc) \/ Truthy(msg.bcc)

\* IMAP4JobQueue.messages: the messages it yields for what _messages gave.  The
\* `continue` of line 74 belongs to the loop over the three header names, so it
\* ends nothing but that loop's pass: a message is yielded whatever its headers.
messages(items) ==
    [i \in 1..Len(items) |-> [uid |-> items[i].uid, msg |-> email_from_bytes(items[i].data)]]

\* the page texts the run may find
PageTexts == { <<>>, <<"*", " ", "h", "t", "t", "p", ":", "/", "/", "a", "\n">> }

\* put_current ends by returning that the page was saved ("ok"), by returning
\* that it was not ("false"), or by raising ("raise")
PutOutcomes == {"ok", "false", "raise"}

\* the UID of the i-th message of the initial mailbox: UIDs grow with the sequence
\* number and are not the sequence number
UidOf(i) == 2 * i

\* an exception: its kind ("imap" for IMAP4JobQueue.error, "other" for any other
\* class) and its args
Error(kind, args) == [kind |-> kind, args |-> args]

NoError == Error("none", <<>>)

\* the last line of a response that is not OK, which _chk makes the message of
\* the error it raises
ResponseTexts ==
    { <<"x", " ", "D", "e", "l", "e", "t", "e", "d", " ", "U", "n", "d", "e", "r", " ", "y">>,
      <<"P", "l", "e", "a", "s", "e", " ", "R", "e", "L", "o", "g", "i", "n">>,
      <<"n", "o", " ", "s", "u", "c", "h", " ", "m", "a", "i", "l", "b", "o", "x">>,
      <<>> }

\* what ends the run without a response: an error from imaplib itself that
\* carries no message, or an exception that is not a mail-store error
\* (KeyboardInterrupt, a socket error, an error of the wiki login)
Interruptions == { Error("imap", <<>>), Error("other", <<>>) }

\* a message as the mailbox holds it when the run starts: what it is, and whether
\* another client has flagged it \Deleted already.  The flag is modelled for the
\* messages the run skips (3, 4); the others the run flags itself.
StoredMessages ==
    { s \in (1..Len(RawMessages)) \X BOOLEAN : s[2] => s[1] \in {3, 4} }

Mailboxes ==
    UNION { [1..n -> StoredMessages] : n \in 0..MaxMsgs }

Cmd(op, uid, ok) == [op |-> op, uid |-> uid, ok |-> ok]

Uids(box) == {box[i].uid : i \in 1..Len(box)}

Flagged(box) == {box[i].uid : i \in {j \in 1..Len(box) : box[j].deleted}}

RunInit ==
    /\ \E b \in Mailboxes :
          mailbox = [i \in 1..Len(b) |-> [uid |-> UidOf(i), data |-> b[i][1], deleted |-> b[i][2]]]
    /\ mailbox0 = mailbox
    /\ nextUid = UidOf(Len(mailbox)) + 1
    /\ delivered = 0
    /\ pc = "login"
    /\ fetched = <<>>
    /\ idx = 1
    /\ entries = <<>>
    /\ marked = {}
    /\ skipped = {}
    /\ cmds = <<>>
    /\ pageText \in PageTexts
    /\ written = None
    /\ putResult = "none"
    /\ exc = NoError
    /\ exit = "none"

FunIdle ==
    /\ mD = <<>> /\ mE = <<>> /\ mOut1 = None /\ mOut2 = None
    /\ eMsg = Message(None, None, None, None) /\ eOut = None
    /\ fpc = "off"

LogIdle ==
    /\ lpc = "off" /\ lFilter = FALSE /\ records = <<>> /\ logged = <<>>
    /\ emitted = <<>> /\ excType = FALSE

RunIdle ==
    /\ mailbox = <<>> /\ mailbox0 = <<>> /\ nextUid = 1 /\ delivered = 0
    /\ pc = "off" /\ fetched = <<>> /\ idx = 1 /\ entries = <<>>
    /\ marked = {} /\ skipped = {} /\ cmds = <<>>
    /\ pageText = <<>> /\ written = None /\ putResult = "none"
    /\ exc = NoError /\ exit = "none"

Init == RunInit /\ FunIdle /\ LogIdle

-----------------------------------------------------------------------------
(* The run: _main, Robot.generator, Robot.treat_page *)

\* mutant of Raised: _chk lets every response pass
Raised_Never(ok) == FALSE

\* _chk on the response to a command: it raises unless the response is OK
Raised(ok) == ~ok

\* the exception _chk leaves the run with: self.error(dat[-1].decode()) for a
\* response that is not OK
chk(ok, text) == IF Raised(ok) THEN Error("imap", <<text>>) ELSE NoError

\* str.find(sub) >= 0
Find(s, sub) == \E i \in 1..(Len(s) + 1) : MatchAt(s, i, sub)

\* the needles of line 248
Needles ==
    { <<"d", "e", "l", "e", "t", "e", "d", " ", "u", "n", "d", "e", "r">>,
      <<"p", "l", "e", "a", "s", "e", " ", "r", "e", "l", "o", "g", "i", "n">> }

\* mutant of Handled: the message is searched as it is, not lowercased
Handled_CaseSensitive(e) ==
    IF e.kind # "imap" THEN "raised"
    ELSE IF Len(e.args) = 0 THEN "raised"
    ELSE IF \E needle \in Needles : Find(e.args[1], needle) THEN "silent"
    ELSE "raised"

\* the except clause of _main (lines 244-253) for the exception e: "silent" when
\* it swallows e, "raised" when e leaves _main
Handled(e) ==
    IF e.kind # "imap" THEN "raised"
    ELSE IF Len(e.args) = 0 THEN "raised"
    ELSE IF \E needle \in Needles : Find(LowerStr(e.args[1]), needle) THEN "silent"
    ELSE "raised"

\* _main around the step that left the run at `at` with the exception e: the
\* except clause runs as soon as the exception is raised
MainExcept(at, e) == IF at = "failed" THEN Handled(e) ELSE "none"

\* IMAP4JobQueue.__init__: connect and log in
Login ==
    /\ pc = "login"
    /\ \E ok \in BOOLEAN, t \in ResponseTexts :
          /\ cmds' = Append(cmds, Cmd("LOGIN", 0, ok))
          /\ pc' = IF Raised(ok) THEN "failed" ELSE "select"
          /\ exc' = chk(ok, t)
    /\ UNCHANGED <<mailbox, mailbox0, nextUid, delivered, fetched, idx, entries, marked,
                   skipped, pageText, written, putResult>>
    /\ exit' = MainExcept(pc', exc')
    /\ UNCHANGED funVars
    /\ UNCHANGED logVars

\* _messages, first half: SELECT; a mailbox of no messages ends the enumeration
Select ==
    /\ pc = "select"
    /\ \E ok \in BOOLEAN, t \in ResponseTexts :
          /\ cmds' = Append(cmds, Cmd("SELECT", 0, ok))
          /\ pc' = IF Raised(ok) THEN "failed"
                   ELSE IF Len(mailbox) = 0 THEN "loop" ELSE "fetch"
          /\ exc' = chk(ok, t)
    /\ UNCHANGED <<mailbox, mailbox0, nextUid, delivered, fetched, idx, entries, marked,
                   skipped, pageText, written, putResult>>
    /\ exit' = MainExcept(pc', exc')
    /\ UNCHANGED funVars
    /\ UNCHANGED logVars

\* _messages, second half: FETCH 1:* (UID RFC822), every message with its UID
Fetch ==
    /\ pc = "fetch"
    /\ \E ok \in BOOLEAN, t \in ResponseTexts :
          /\ cmds' = Append(cmds, Cmd("FETCH", 0, ok))
          /\ pc' = IF Raised(ok) THEN "failed" ELSE "loop"
          /\ exc' = chk(ok, t)
          /\ fetched' = IF Raised(ok) THEN fetched
                        ELSE [i \in 1..Len(mailbox) |->
                                 [uid |-> mailbox[i].uid, data |-> mailbox[i].data]]
    /\ UNCHANGED <<mailbox, mailbox0, nextUid, delivered, idx, entries, marked,
                   skipped, pageText, written, putResult>>
    /\ exit' = MainExcept(pc', exc')
    /\ UNCHANGED funVars
    /\ UNCHANGED logVars

\* mutant of StoreDeleted: the flag is stored on every message (STORE 1:*)
StoreDeleted_All(box, uid) ==
    [i \in 1..Len(box) |-> [box[i] EXCEPT !.deleted = TRUE]]

\* mutant of StoreDeleted: the number is taken for a sequence number (STORE, not
\* UID STORE)
StoreDeleted_BySeq(box, uid) ==
    [i \in 1..Len(box) |-> IF i = uid THEN [box[i] EXCEPT !.deleted = TRUE] ELSE box[i]]

\* the server's UID STORE uid +FLAGS \Deleted
StoreDeleted(box, uid) ==
    [i \in 1..Len(box) |-> IF box[i].uid = uid THEN [box[i] EXCEPT !.deleted = TRUE]
                           ELSE box[i]]

\* the server's EXPUNGE: every message flagged \Deleted goes
RECURSIVE Expunged(_)
Expunged(box) ==
    IF Len(box) = 0 THEN <<>>
    ELSE IF Head(box).deleted THEN Expunged(Tail(box))
    ELSE <<Head(box)>> \o Expunged(Tail(box))

\* mutant of GeneratorStep: the message is marked before the transform is looked
\* at, so a skipped message is marked too
GeneratorStep_MarkFirst ==
    /\ pc = "loop"
    /\ idx <= Len(fetched)
    /\ LET m == messages(fetched)[idx]
           entry == entry_for(m.msg)
       IN  /\ marked' = marked \cup {m.uid}
           /\ entries' = IF IsNone(entry) THEN entries ELSE Append(entries, entry[1])
           /\ skipped' = IF IsNone(entry) THEN skipped \cup {m.uid} ELSE skipped
           /\ cmds' = Append(cmds, Cmd("STORE", m.uid, TRUE))
           /\ mailbox' = StoreDeleted(mailbox, m.uid)
           /\ idx' = idx + 1
           /\ pc' = pc
    /\ UNCHANGED <<mailbox0, nextUid, delivered, fetched, pageText, written, putResult>>
    /\ UNCHANGED <<exc, exit>>
    /\ UNCHANGED funVars
    /\ UNCHANGED logVars

\* mutant of GeneratorStep: the entry is put in front of the list
GeneratorStep_Prepend ==
    /\ pc = "loop"
    /\ idx <= Len(fetched)
    /\ LET m == messages(fetched)[idx]
           entry == entry_for(m.msg)
       IN  IF IsNone(entry)
           THEN /\ skipped' = skipped \cup {m.uid}
                /\ idx' = idx + 1
                /\ UNCHANGED <<mailbox, pc, entries, marked, cmds, exc>>
           ELSE /\ entries' = <<entry[1]>> \o entries
                /\ marked' = marked \cup {m.uid}
                /\ \E ok \in BOOLEAN, t \in ResponseTexts :
                      /\ cmds' = Append(cmds, Cmd("STORE", m.uid, ok))
                      /\ mailbox' = IF Raised(ok) THEN mailbox
                                    ELSE StoreDeleted(mailbox, m.uid)
                      /\ pc' = IF Raised(ok) THEN "failed" ELSE pc
                      /\ exc' = chk(ok, t)
                      /\ idx' = IF Raised(ok) THEN idx ELSE idx + 1
                /\ UNCHANGED skipped
    /\ UNCHANGED <<mailbox0, nextUid, delivered, fetched, pageText, written, putResult>>
    /\ exit' = MainExcept(pc', exc')
    /\ UNCHANGED funVars
    /\ UNCHANGED logVars

\* one pass of the loop of Robot.generator: transform the next message; a skip
\* goes on to the next one, an entry is appended and its message marked
GeneratorStep ==
    /\ pc = "loop"
    /\ idx <= Len(fetched)
    /\ LET m == messages(fetched)[idx]
           entry == entry_for(m.msg)
       IN  IF IsNone(entry)
           THEN /\ skipped' = skipped \cup {m.uid}
                /\ idx' = idx + 1
                /\ UNCHANGED <<mailbox, pc, entries, marked, cmds, exc>>
           ELSE /\ entries' = Append(entries, entry[1])
                /\ marked' = marked \cup {m.uid}
                /\ \E ok \in BOOLEAN, t \in ResponseTexts :
                      /\ cmds' = Append(cmds, Cmd("STORE", m.uid, ok))
                      /\ mailbox' = IF Raised(ok) THEN mailbox
                                    ELSE StoreDeleted(mailbox, m.uid)
                      /\ pc' = IF Raised(ok) THEN "failed" ELSE pc
                      /\ exc' = chk(ok, t)
                      /\ idx' = IF Raised(ok) THEN idx ELSE idx + 1
                /\ UNCHANGED skipped
    /\ UNCHANGED <<mailbox0, nextUid, delivered, fetched, pageText, written, putResult>>
    /\ exit' = MainExcept(pc', exc')
    /\ UNCHANGED funVars
    /\ UNCHANGED logVars

\* mutant of GeneratorEnd: the page is yielded whether or not there are entries
GeneratorEnd_AlwaysYield ==
    /\ pc = "loop"
    /\ idx > Len(fetched)
    /\ pc' = "treat"
    /\ UNCHANGED <<mailbox, mailbox0, nextUid, delivered, fetched, idx, entries, marked,
                   skipped, cmds, pageText, written, putResult>>
    /\ UNCHANGED <<exc, exit>>
    /\ UNCHANGED funVars
    /\ UNCHANGED logVars

\* the end of Robot.generator: the page is yielded only if there are entries
GeneratorEnd ==
    /\ pc = "loop"
    /\ idx > Len(fetched)
    /\ pc' = IF Len(entries) > 0 THEN "treat" ELSE "done"
    /\ UNCHANGED <<mailbox, mailbox0, nextUid, delivered, fetched, idx, entries, marked,
                   skipped, cmds, pageText, written, putResult>>
    /\ UNCHANGED <<exc, exit>>
    /\ UNCHANGED funVars
    /\ UNCHANGED logVars

\* Robot.treat_page up to put_current: merge and submit; the result of
\* put_current is not looked at, only an exception ends the run
TreatPagePut ==
    /\ pc = "treat"
    /\ written' = Some(MergedText(pageText, entries))
    /\ \E r \in PutOutcomes :
          /\ putResult' = r
          /\ cmds' = Append(cmds, Cmd("PUT", 0, r = "ok"))
          /\ pageText' = IF r = "ok" THEN MergedText(pageText, entries) ELSE pageText
          /\ pc' = IF r = "raise" THEN "failed" ELSE "expunge"
          /\ exc' = IF r = "raise" THEN Error("other", <<>>) ELSE exc
    /\ UNCHANGED <<mailbox, mailbox0, nextUid, delivered, fetched, idx, entries, marked,
                   skipped>>
    /\ exit' = MainExcept(pc', exc')
    /\ UNCHANGED funVars
    /\ UNCHANGED logVars

\* Robot.treat_page, last line: EXPUNGE
TreatPageExpunge ==
    /\ pc = "expunge"
    /\ \E ok \in BOOLEAN, t \in ResponseTexts :
          /\ cmds' = Append(cmds, Cmd("EXPUNGE", 0, ok))
          /\ mailbox' = IF Raised(ok) THEN mailbox ELSE Expunged(mailbox)
          /\ pc' = IF Raised(ok) THEN "failed" ELSE "done"
          /\ exc' = chk(ok, t)
    /\ UNCHANGED <<mailbox0, nextUid, delivered, fetched, idx, entries, marked,
                   skipped, pageText, written, putResult>>
    /\ exit' = MainExcept(pc', exc')
    /\ UNCHANGED funVars
    /\ UNCHANGED logVars

\* the run is cancelled between two steps
Cancel ==
    /\ pc \in {"login", "select", "fetch", "loop", "treat", "expunge"}
    /\ pc' = "failed"
    /\ exc' \in Interruptions
    /\ UNCHANGED <<mailbox, mailbox0, nextUid, delivered, fetched, idx, entries, marked,
                   skipped, cmds, pageText, written, putResult>>
    /\ exit' = MainExcept(pc', exc')
    /\ UNCHANGED funVars
    /\ UNCHANGED logVars

\* another party delivers a message once the run has enumerated the mailbox
\* (an earlier delivery is a mailbox the run starts with)
Deliver ==
    /\ pc \in {"loop", "treat", "expunge"}
    /\ delivered < MaxDeliver
    /\ \E d \in DeliveredData :
          mailbox' = Append(mailbox, [uid |-> nextUid, data |-> d, deleted |-> FALSE])
    /\ nextUid' = nextUid + 1
    /\ delivered' = delivered + 1
    /\ UNCHANGED <<mailbox0, pc, fetched, idx, entries, marked, skipped, cmds, pageText,
                   written, putResult>>
    /\ UNCHANGED <<exc, exit>>
    /\ UNCHANGED funVars
    /\ UNCHANGED logVars

Next ==
    \/ Login
    \/ Select
    \/ Fetch
    \/ GeneratorStep
    \/ GeneratorEnd
    \/ TreatPagePut
    \/ TreatPageExpunge
    \/ Cancel
    \/ Deliver

Spec == Init /\ [][Next]_vars

-----------------------------------------------------------------------------
(* Properties of the run *)

IssuedAt(op) == {i \in 1..Len(cmds) : cmds[i].op = op}

Accepted(op) == {i \in IssuedAt(op) : cmds[i].ok}

\* the decoded message the run fetched under a UID
FetchedMsg(uid) ==
    email_from_bytes(fetched[CHOOSE i \in 1..Len(fetched) : fetched[i].uid = uid].data)

\* what an enumeration (FETCH 1:* (UID RFC822)) shows of the messages of `box`
\* that were there when the run started
Enumerated(box) ==
    LET at == {i \in 1..Len(box) : box[i].uid \in Uids(mailbox0)}
        F[i \in 0..Len(box)] ==
            IF i = 0 THEN <<>>
            ELSE IF i \in at THEN Append(F[i - 1], <<box[i].uid, box[i].data>>)
            ELSE F[i - 1]
    IN  F[Len(box)]

\* C1: compaction (EXPUNGE) is issued only after the document write succeeded:
\* whenever an EXPUNGE has been issued, put_current ended with the page saved.
C1_CompactOnlyAfterPersisted ==
    IssuedAt("EXPUNGE") # {} => putResult = "ok"

\* C2 (as claimed): no mark-deleted command (UID STORE +FLAGS \Deleted) is issued
\* before a document write that was persisted.
C2_MarkOnlyAfterPersisted ==
    \A i \in IssuedAt("STORE") : \E j \in Accepted("PUT") : j < i

\* C2 (amended): the mark-deleted commands of the run are one per appended entry,
\* in order: the k-th of them names the message whose entry is entries[k], so an
\* item is marked only once its entry is in the list the document write is built
\* from; and every mark-deleted command comes before the document write, none after.
C2_MarkOnlyAfterAppended ==
    LET stores == SelectSeq(cmds, LAMBDA c : c.op = "STORE")
    IN  /\ Len(stores) = Len(entries)
        /\ \A k \in 1..Len(stores) :
              entry_for(FetchedMsg(stores[k].uid)) = Some(entries[k])
        /\ \A i \in IssuedAt("STORE") : \A j \in IssuedAt("PUT") : i < j

\* C2 witness: a run that marked a message, wrote the page and compacted.
C2_Witness ==
    /\ pc = "done"
    /\ Accepted("STORE") # {}
    /\ putResult = "ok"
    /\ Accepted("EXPUNGE") # {}

\* the run was cancelled or failed at a step before compaction: it ended without
\* an EXPUNGE issued, or its document write raised or reported failure
FailedBeforeCompaction ==
    \/ pc = "failed" /\ IssuedAt("EXPUNGE") = {}
    \/ putResult \in {"false", "raise"}

\* C3: a run cancelled or failed before compaction leaves the mailbox as the next
\* run's enumeration sees it: every message that was there is still there.
C3_FailedRunKeepsMailbox ==
    FailedBeforeCompaction => Enumerated(mailbox) = Enumerated(mailbox0)

\* the run has compacted the mailbox
Compacted == Accepted("EXPUNGE") # {}

\* C4 (as claimed): only transformed messages are marked, and every skipped message
\* is still in the mailbox after the compaction, whatever flags the mailbox had.
C4_SkippedSurviveAlways ==
    /\ \A u \in marked : ~IsNone(entry_for(FetchedMsg(u)))
    /\ marked \cap skipped = {}
    /\ Compacted => skipped \subseteq Uids(mailbox)

\* C4 (amended): only transformed messages are marked; a skipped message is never
\* marked by the run (its flag is the one it had), and it is still in the mailbox
\* after the compaction unless it carried the deleted flag before the run.
C4_SkippedSurviveUnlessFlagged ==
    /\ \A u \in marked : ~IsNone(entry_for(FetchedMsg(u)))
    /\ marked \cap skipped = {}
    /\ skipped \cap Flagged(mailbox) \subseteq Flagged(mailbox0)
    /\ Compacted => (skipped \ Flagged(mailbox0)) \subseteq Uids(mailbox)

\* C4 witness: after a compaction that removed a marked message, a skipped one is
\* still there.
C4_Witness ==
    /\ Compacted
    /\ \E u \in marked : u \notin Uids(mailbox)
    /\ \E u \in skipped : u \in Uids(mailbox)

\* C5: a message with a non-empty To, Cc or Bcc header is skipped: it gives no
\* entry and is not marked for deletion.
C5_RecipientsSkipped ==
    \A i \in 1..Len(fetched) :
        HasRecipient(email_from_bytes(fetched[i].data)) => fetched[i].uid \notin marked

-----------------------------------------------------------------------------
(* More properties of the run *)

\* the enumeration is over and every message it gave was skipped
EverySkipped ==
    /\ Accepted("FETCH") # {}
    /\ pc \in {"loop", "done"}
    /\ idx > Len(fetched)
    /\ \A i \in 1..Len(fetched) : fetched[i].uid \in skipped

\* the run has marked nothing, written nothing and compacted nothing
TouchedNothing ==
    /\ IssuedAt("STORE") = {}
    /\ IssuedAt("PUT") = {}
    /\ IssuedAt("EXPUNGE") = {}
    /\ marked = {}
    /\ IsNone(written)
    /\ pc \notin {"treat", "expunge"}
    /\ Enumerated(mailbox) = Enumerated(mailbox0)
    /\ Flagged(mailbox) = Flagged(mailbox0)

\* C12: a mailbox of no messages is enumerated without a FETCH, and that run issues
\* no STORE, no put_current and no EXPUNGE; a run whose messages were all
\* skipped issues none of the three either.
C12_EmptyRunTouchesNothing ==
    /\ Len(mailbox0) = 0 =>
          /\ IssuedAt("FETCH") = {}
          /\ fetched = <<>>
          /\ TouchedNothing
    /\ EverySkipped => TouchedNothing

\* C12 witness: a run over an empty mailbox has ended, a message delivered meanwhile.
C12_Witness ==
    /\ Len(mailbox0) = 0
    /\ pc = "done"
    /\ delivered = 1
    /\ cmds = <<Cmd("LOGIN", 0, TRUE), Cmd("SELECT", 0, TRUE)>>

\* a run of two messages, both skipped, has ended
C12_AllSkippedReached ==
    /\ Len(mailbox0) = 2
    /\ EverySkipped
    /\ pc = "done"

\* the mail-store commands whose response _chk checks
Checked == {"LOGIN", "SELECT", "FETCH", "STORE", "EXPUNGE"}

\* C14: a response that is not OK to LOGIN, SELECT, FETCH, STORE or EXPUNGE makes
\* _chk raise a mail-store error carrying the response text, the run is failed,
\* and that command is the last thing the run issued: no mail-store command and
\* no put_current comes after it.
C14_NonOkIsFatal ==
    \A i \in 1..Len(cmds) :
        (cmds[i].op \in Checked /\ ~cmds[i].ok) =>
            /\ i = Len(cmds)
            /\ pc = "failed"
            /\ exc.kind = "imap"
            /\ Len(exc.args) = 1
            /\ exc.args[1] \in ResponseTexts

\* C14 witness: the second STORE of a run was refused; the first message stays
\* flagged, nothing was written, nothing compacted.
C14_Witness ==
    /\ pc = "failed"
    /\ exit # "none"
    /\ Cardinality(IssuedAt("STORE")) = 2
    /\ Cardinality(Accepted("STORE")) = 1
    /\ Len(cmds) \in IssuedAt("STORE") \ Accepted("STORE")
    /\ IsNone(written)

\* the errors _main swallows, of those the model raises
BenignErrors ==
    { Error("imap", <<t>>) : t \in
        { <<"x", " ", "D", "e", "l", "e", "t", "e", "d", " ", "U", "n", "d", "e", "r", " ", "y">>,
          <<"P", "l", "e", "a", "s", "e", " ", "R", "e", "L", "o", "g", "i", "n">> } }

\* C15: _main ends silently exactly for a mail-store error whose message contains
\* "deleted under" or "please relogin", case apart; a mail-store error without a
\* message, one with another message, and an error of another class leave _main.
C15_OnlyBenignSwallowed ==
    /\ exit # "none" => pc = "failed" /\ exc # NoError
    /\ exit = "silent" => exc \in BenignErrors
    /\ exit = "raised" => exc \notin BenignErrors

\* C15 witness: a refused FETCH with a mixed-case "Deleted Under" ended silently.
C15_Witness ==
    /\ exit = "silent"
    /\ exc = Error("imap", <<<<"x", " ", "D", "e", "l", "e", "t", "e", "d", " ", "U", "n", "d", "e", "r", " ", "y">>>>)
    /\ Len(cmds) \in IssuedAt("FETCH") \ Accepted("FETCH")

\* the UIDs of the messages another party delivered during the run
DeliveredUids == (UidOf(Len(mailbox0)) + 1)..(nextUid - 1)

\* C19: a message delivered after the FETCH is never the target of a STORE of the
\* run, never flagged \Deleted and never removed, whatever the order of the
\* delivery and the run's STORE and EXPUNGE commands.
C19_DeliveredUntouched ==
    \A u \in DeliveredUids :
        /\ u \notin marked
        /\ \A i \in IssuedAt("STORE") : cmds[i].uid # u
        /\ u \in Uids(mailbox)
        /\ u \notin Flagged(mailbox)
        /\ \A i \in 1..Len(mailbox) : mailbox[i].uid = u => mailbox[i].data \in DeliveredData

\* C19 witness: a run over one message has marked and compacted it; the message
\* delivered meanwhile is all that is left, unflagged.
C19_Witness ==
    /\ pc = "done"
    /\ Len(mailbox0) = 1
    /\ delivered = 1
    /\ Accepted("STORE") # {}
    /\ Accepted("EXPUNGE") # {}
    /\ mailbox = <<[uid |-> UidOf(1) + 1, data |-> 1, deleted |-> FALSE]>>

\* the messages of the model that are transformed, and the line of each
Transformed == {1, 2}

LineOf(data) ==
    IF data = 1 THEN <<"*", " ", "h", "t", "t", "p", ":", "/", "/", "a">>
    ELSE <<"*", " ", "h", "t", "t", "p", ":", "/", "/", "b">>

\* the page text holds an entry line with the key of `line`
InDocument(text, line) ==
    \E l \in {SplitOn(text, "\n")[i] : i \in 1..Len(SplitOn(text, "\n"))} :
        IsEntryLine(l) /\ DedupKey(l) = DedupKey(line)

\* the message at position k of the FETCH is transformed, and its key is neither
\* in the page text nor the key of a message enumerated before it
FirstOfItsKey(k) ==
    /\ fetched[k].data \in Transformed
    /\ ~InDocument(pageText, LineOf(fetched[k].data))
    /\ \A h \in 1..(k - 1) : fetched[h].data # fetched[k].data

\* where the line of the message at position k stands in the lines ls
At(ls, k) == {p \in 1..Len(ls) : ls[p] = LineOf(fetched[k].data)}

\* C20 (as stated): in the text treat_page submits, the lines of two transformed
\* messages with different keys, neither in the page before, come after every
\* line the page had and in the order the FETCH gave the messages.
C20_FifoAfterExisting ==
    [][(pc = "treat" /\ ~IsNone(written')) =>
          LET ls == SplitOn(written'[1], "\n")
              old == Len(SplitOn(RStrip(pageText), "\n"))
          IN  \A i, j \in 1..Len(fetched) :
                  ( /\ i < j
                    /\ fetched[i].data \in Transformed
                    /\ fetched[j].data \in Transformed
                    /\ fetched[i].data # fetched[j].data
                    /\ ~InDocument(pageText, LineOf(fetched[i].data))
                    /\ ~InDocument(pageText, LineOf(fetched[j].data)) )
                  => \E p \in At(ls, i), q \in At(ls, j) :
                        /\ At(ls, i) = {p}
                        /\ At(ls, j) = {q}
                        /\ old < p
                        /\ p < q
      ]_vars

\* C20 (amended): the same, for two messages each of which is the first of the
\* run to carry its key; the line of a key stands where the first message that
\* carried it put it, and a later message of that key adds no line.
C20_FifoOfFirstOccurrences ==
    [][(pc = "treat" /\ ~IsNone(written')) =>
          LET ls == SplitOn(written'[1], "\n")
              old == Len(SplitOn(RStrip(pageText), "\n"))
          IN  /\ \A i, j \in 1..Len(fetched) :
                    (i < j /\ FirstOfItsKey(i) /\ FirstOfItsKey(j))
                    => \E p \in At(ls, i), q \in At(ls, j) :
                          /\ At(ls, i) = {p}
                          /\ At(ls, j) = {q}
                          /\ old < p
                          /\ p < q
              /\ \A k \in 1..Len(fetched) :
                    fetched[k].data \in Transformed => Cardinality(At(ls, k)) = 1
      ]_vars

\* C20 witness: the messages with the links b, a and b again were enumerated in
\* that order, and the text submitted for an empty page lists b, then a.
C20_Witness ==
    /\ Len(fetched) = 3
    /\ fetched[1].data = 2
    /\ fetched[2].data = 1
    /\ fetched[3].data = 2
    /\ putResult = "false"
    /\ pageText = <<>>
    /\ written = Some(<<"\n", "*", " ", "h", "t", "t", "p", ":", "/", "/", "b", "\n", "*", " ", "h", "t", "t", "p", ":", "/", "/", "a", "\n">>)

-----------------------------------------------------------------------------
(* treat_page as a function of the page text and the entries *)

\* the most lines of a page text
MaxDocLines == 3

\* the most new entries of one call
MaxEntries == 2

\* the lines page texts are made of: entries with and without a timestamp marker,
\* an entry with trailing whitespace, an empty line and a line that is no entry
DocLines ==
    { <<"*", " ", "a">>,
      <<"*", " ", "{", "{", "a", "t", "|", "d", "}", "}", " ", "a">>,
      <<"*", " ", "x", " ">>,
      <<>>,
      <<"n">> }

\* the new entries: the same link under two timestamp markers, another link, and
\* an entry of two lines (entry_for keeps the line breaks of the body's rest)
NewEntries ==
    { <<"{", "{", "a", "t", "|", "d", "}", "}", " ", "a">>,
      <<"{", "{", "a", "t", "|", "e", "}", "}", " ", "a">>,
      <<"b">>,
      <<"a", " ", "c", " ", "\n", "*", " ", "b">> }

SeqsUpTo(S, n) == UNION { [1..k -> S] : k \in 0..n }

MergeInit ==
    /\ RunIdle
    /\ LogIdle
    /\ \E ls \in SeqsUpTo(DocLines, MaxDocLines) : mD = Join(ls, S_NL)
    /\ mE \in SeqsUpTo(NewEntries, MaxEntries) \ {<<>>}
    /\ mOut1 = None
    /\ mOut2 = None
    /\ eMsg = Message(None, None, None, None)
    /\ eOut = None
    /\ fpc = "merge"

\* treat_page on (mD, mE)
MergeOnce ==
    /\ fpc = "merge"
    /\ mOut1' = Some(MergedText(mD, mE))
    /\ fpc' = "merged"
    /\ UNCHANGED <<mD, mE, mOut2, eMsg, eOut>>
    /\ UNCHANGED runVars
    /\ UNCHANGED logVars

\* treat_page on the text it wrote and the same entries
MergeAgain ==
    /\ fpc = "merged"
    /\ mOut2' = Some(MergedText(mOut1[1], mE))
    /\ fpc' = "done"
    /\ UNCHANGED <<mD, mE, mOut1, eMsg, eOut>>
    /\ UNCHANGED runVars
    /\ UNCHANGED logVars

MergeNext == MergeOnce \/ MergeAgain

SpecMerge == MergeInit /\ [][MergeNext]_vars

\* the entry lines of a text, in order
EntryLines(text) == SelectSeq(SplitOn(text, "\n"), LAMBDA l : IsEntryLine(l))

\* the same lines, whitespace at the end of a line not counted
TrimmedEntryLines(text) ==
    LET ls == EntryLines(text) IN [i \in 1..Len(ls) |-> RStrip(ls[i])]

\* C6: after the merge no two entry lines of the written text have the same dedup
\* key (the line without its "*" marker and optional {{at|...}} marker).
C6_NoDuplicateKeys ==
    fpc \in {"merged", "done"} =>
        LET ls == EntryLines(mOut1[1])
        IN  \A i, j \in 1..Len(ls) : i < j => DedupKey(ls[i]) # DedupKey(ls[j])

\* C6 witness: two new entries that differ only in their timestamp marker were
\* merged, and the written text has one line for them.
C6_Witness ==
    /\ fpc = "merged"
    /\ mD = <<>>
    /\ mE = << <<"{", "{", "a", "t", "|", "d", "}", "}", " ", "a">>,
              <<"{", "{", "a", "t", "|", "e", "}", "}", " ", "a">> >>
    /\ mOut1 = Some(<<"\n", "*", " ", "{", "{", "a", "t", "|", "d", "}", "}", " ", "a", "\n">>)

\* C7: the merge is idempotent on entry lines: merging the same entries into the
\* merged text gives the entry lines of the first merge, in the same order (stated
\* here up to whitespace at the end of a line).
C7_MergeIdempotent ==
    fpc = "done" => TrimmedEntryLines(mOut2[1]) = TrimmedEntryLines(mOut1[1])

\* C8: the text submitted for writing ends with exactly one newline.
C8_OneTrailingNewline ==
    fpc \in {"merged", "done"} =>
        LET t == mOut1[1]
        IN  /\ Len(t) >= 1
            /\ t[Len(t)] = "\n"
            /\ Len(t) >= 2 => t[Len(t) - 1] # "\n"

\* the lines the dedup pass reads: the page text and the bulleted entries, joined,
\* stripped at the end and split (lines 112-117)
PassInput(text, ents) ==
    SplitOn(RStrip(Join(<<RStrip(text)>> \o ents, S_Bullet)), "\n")

\* the lines of a written text, its final line break apart
WrittenLines(text) == SplitOn(SubSeq(text, 1, Len(text) - 1), "\n")

\* the positions of `lines` that hold a line that is no entry, or the first entry
\* line of its key
FirstOfKey(lines) ==
    {i \in 1..Len(lines) :
        IsEntryLine(lines[i]) =>
            \A j \in 1..(i - 1) :
                IsEntryLine(lines[j]) => DedupKey(lines[j]) # DedupKey(lines[i])}

\* the lines at the positions `at`, in the order of `lines`
Pick(lines, at) ==
    LET F[i \in 0..Len(lines)] ==
            IF i = 0 THEN <<>>
            ELSE IF i \in at THEN Append(F[i - 1], lines[i])
            ELSE F[i - 1]
    IN  F[Len(lines)]

\* C16: the dedup pass writes the lines it read, in their order, less the entry
\* lines whose key an earlier entry line carried: the first line of each key stays
\* (an existing entry before a new one), a line that is no entry always stays,
\* and no line is changed.
C16_KeepsFirstInOrder ==
    fpc \in {"merged", "done"} =>
        LET in == PassInput(mD, mE)
        IN  WrittenLines(mOut1[1]) = Pick(in, FirstOfKey(in))

\* C16 witness: the page holds "* a" and twice the line "n"; a new entry for a is
\* dropped, b is appended, both lines "n" stay.
C16_Witness ==
    /\ fpc = "merged"
    /\ mD = <<"*", " ", "a", "\n", "n", "\n", "n">>
    /\ mE = << <<"{", "{", "a", "t", "|", "d", "}", "}", " ", "a">>,
               <<"b">> >>
    /\ mOut1 = Some(<<"*", " ", "a", "\n", "n", "\n", "n", "\n", "*", " ", "b", "\n">>)

-----------------------------------------------------------------------------
(* entry_for as a function of the decoded message *)

L_FooBar ==
    <<"h", "t", "t", "p", ":", "/", "/", "e", "n", ".", "w", "i", "k", "i", "p", "e", "d",
    "i", "a", ".", "o", "r", "g", "/", "w", "i", "k", "i", "/", "F", "o", "o", "_", "B",
    "a", "r">>

L_FooBarMobile ==
    <<"h", "t", "t", "p", "s", ":", "/", "/", "e", "n", ".", "m", ".", "w", "i", "k", "i",
    "p", "e", "d", "i", "a", ".", "o", "r", "g", "/", "w", "i", "k", "i", "/", "F", "o",
    "o", "%", "2", "0", "B", "a", "r">>

L_Paren ==
    <<"H", "T", "T", "P", ":", "/", "/", "E", "N", ".", "W", "i", "k", "i", "p", "e", "d",
    "i", "a", ".", "O", "R", "G", "/", "w", "i", "k", "i", "/", "A", "_", "%", "2", "8",
    "b", "%", "2", "9">>

L_Plain ==
    <<"h", "t", "t", "p", ":", "/", "/", "a">>

L_Angle ==
    <<"<", "h", "t", "t", "p", "s", ":", "/", "/", "b", "/", "c", ">">>

L_Ftp ==
    <<"f", "t", "p", ":", "/", "/", "c">>

L_Short ==
    <<"h", "t", "t", "p", ":", "/", "/", "y", "o", "u", "t", "u", ".", "b", "e", "/", "v",
    "1">>

L_Igshid ==
    <<"h", "t", "t", "p", "s", ":", "/", "/", "i", "/", "p", "?", "i", "g", "s", "h", "i",
    "d", "=", "A", "b", "1", "=">>

L_Bracket ==
    <<"h", "t", "t", "p", ":", "/", "/", "d", "/", "[", "e", "]">>

L_AngleFtp ==
    <<"<", "F", "T", "P", ":", "/", "/", "c", ">">>

L_Httpx ==
    <<"h", "t", "t", "p", "x", ":", "y">>

L_NoColon ==
    <<"n", "o", "t", "e">>

L_Igshid2 ==
    <<"h", "t", "t", "p", ":", "/", "/", "i", "/", "p", "?", "i", "g", "s", "h", "i", "d",
    "=", "a", "?", "i", "g", "s", "h", "i", "d", "=", "b">>

T_FooBar ==
    <<"F", "o", "o", " ", "B", "a", "r">>

T_Paren ==
    <<"A", " ", "(", "b", ")">>

SubjectFooBar ==
    <<"F", "o", "o", " ", "B", "a", "r", " ", "A", "r", "t", "i", "c", "l", "e">>

DateJan1 ==
    <<"M", "o", "n", ",", " ", "1", " ", "J", "a", "n", " ", "2", "0", "2", "4">>

\* the English-Wikipedia article links of the model, each with the title it names
WikipediaLinks ==
    { <<L_FooBar, T_FooBar>>, <<L_FooBarMobile, T_FooBar>>, <<L_Paren, T_Paren>> }

\* the lead tokens of the bodies
Leads ==
    {L_FooBar, L_FooBarMobile, L_Paren, L_Plain, L_Angle, L_Ftp, L_Short, L_Igshid,
     L_Bracket, L_AngleFtp, L_Httpx, L_NoColon, L_Igshid2}

\* what follows the lead token in the body: nothing, a word, two lines
Rests == { <<>>, <<" ", "r">>, <<" ", "r", "\n", "s", " ", "t">> }

Subjects ==
    { None, Some(<<>>), Some(<<" ">>), Some(SubjectFooBar),
      Some(<<" ", "[", "s", "]", " ">>) }

Dates == { None, Some(DateJan1) }

\* no plain-text part, an empty body, or a lead token and what follows it
Bodies ==
    {None, Some(<<" ", "\n">>)} \cup {Some(l \o r \o S_NL) : l \in Leads, r \in Rests}

EntryInit ==
    /\ RunIdle
    /\ LogIdle
    /\ mD = <<>> /\ mE = <<>> /\ mOut1 = None /\ mOut2 = None
    /\ \E s \in Subjects, d \in Dates, b \in Bodies : eMsg = Message(None, s, d, b)
    /\ eOut = None
    /\ fpc = "entry"

\* entry = self.entry_for(msg)
EntryFor ==
    /\ fpc = "entry"
    /\ eOut' = entry_for(eMsg)
    /\ fpc' = "returned"
    /\ UNCHANGED <<mD, mE, mOut1, mOut2, eMsg>>
    /\ UNCHANGED runVars
    /\ UNCHANGED logVars

EntryNext == EntryFor

SpecEntry == EntryInit /\ [][EntryNext]_vars

\* C9: every entry entry_for returns is a single line: it holds no newline.
C9_EntryIsOneLine ==
    (fpc = "returned" /\ ~IsNone(eOut)) => ~Contains(eOut[1], "\n")

\* the body of eMsg is the link `lead` followed by `rest`
BodyIs(lead, rest) == eMsg.body = Some(lead \o rest \o S_NL)

\* the entry for a Wikipedia link rendered as `link`: the timestamp marker in front
\* when there is a date, the quoted subject behind when there is a subject, then
\* the rest of the body
WikipediaEntry(link, rest) ==
    (IF IsNone(eMsg.date) THEN <<>> ELSE S_At \o eMsg.date[1] \o <<"}", "}", " ">>)
    \o link
    \o (IF Truthy(eMsg.subject) /\ Len(Strip(eMsg.subject[1])) > 0
        THEN <<" ", "'", "'", "<", "q", ">">> \o Strip(eMsg.subject[1]) \o <<"<", "/", "q", ">", "'", "'">>
        ELSE <<>>)
    \o (IF Len(Strip(rest)) = 0 THEN <<>> ELSE <<" ">> \o Strip(rest))

\* C10 (as claimed): a Wikipedia article link is rendered as [[Title]], the title
\* percent-decoded and with spaces for underscores.
C10_WikipediaAsTitle ==
    fpc = "returned" =>
        \A w \in WikipediaLinks : \A r \in Rests :
            BodyIs(w[1], r) =>
                eOut = Some(WikipediaEntry(<<"[", "[">> \o w[2] \o <<"]", "]">>, r))

\* C10 (amended): a Wikipedia article link is rendered as [[wikipedia:Title]], the
\* title percent-decoded and with spaces for underscores, with ''<q>subject</q>''
\* behind it when there is a subject and {{at|date}} in front when there is a date.
C10_WikipediaAsInterwiki ==
    fpc = "returned" =>
        \A w \in WikipediaLinks : \A r \in Rests :
            BodyIs(w[1], r) =>
                eOut = Some(WikipediaEntry(<<"[", "[">> \o S_Wikipedia \o w[2] \o <<"]", "]">>, r))

\* C10 witness: the message of the example with the entry returned for it.
C10_Witness ==
    /\ fpc = "returned"
    /\ eMsg = Message(None, Some(SubjectFooBar), Some(DateJan1), Some(L_FooBar \o S_NL))
    /\ eOut = Some(
         <<"{", "{", "a", "t", "|", "M", "o", "n", ",", " ", "1", " ", "J", "a", "n", " ",
         "2", "0", "2", "4", "}", "}", " ", "[", "[", "w", "i", "k", "i", "p", "e", "d",
         "i", "a", ":", "F", "o", "o", " ", "B", "a", "r", "]", "]", " ", "'", "'", "<",
         "q", ">", "F", "o", "o", " ", "B", "a", "r", " ", "A", "r", "t", "i", "c", "l",
         "e", "<", "/", "q", ">", "'", "'">>)

\* the lead tokens whose scheme, angle brackets and case apart, is not http or https
NonHttpLeads == {L_Ftp, L_AngleFtp, L_Httpx, L_NoColon}

\* the subjects that are not empty once trimmed
NonEmptySubjects == { Some(SubjectFooBar), Some(<<" ", "[", "s", "]", " ">>) }

\* C11: with a subject that is not empty after trimming, a lead token whose scheme
\* is neither http nor https makes entry_for return None; with no subject, or an
\* empty one, the scheme is not checked and an entry is returned.
C11_SchemeCheckedWithSubject ==
    fpc = "returned" =>
        \A l \in Leads : \A r \in Rests :
            BodyIs(l, r) =>
                /\ (eMsg.subject \in NonEmptySubjects /\ l \in NonHttpLeads) => IsNone(eOut)
                /\ eMsg.subject \notin NonEmptySubjects => ~IsNone(eOut)

\* C11 witness: an ftp link in angle brackets under a subject, skipped.
C11_Witness ==
    /\ fpc = "returned"
    /\ BodyIs(L_AngleFtp, <<>>)
    /\ eMsg.subject = Some(SubjectFooBar)
    /\ IsNone(eOut)

\* the subject as entry_for uses it: stripped, if there is one
StrippedSubject(msg) ==
    IF IsNone(msg.subject) THEN None ELSE Some(Strip(msg.subject[1]))

\* C13: every rule of REWRITES, applied to its own output, gives what one
\* application gave, for every lead token; and entry_for applies the rules once
\* each, in the order Wikipedia, youtu.be, igshid.
C13_RulesIdempotentInOrder ==
    fpc = "returned" /\ ~IsNone(eOut) =>
        \A l \in Leads : \A r \in Rests :
            BodyIs(l, r) =>
                LET tok == StripAngles(l)
                    once == [k \in 1..Len(REWRITES) |-> Rewrite(REWRITES[k], tok)]
                    inOrder == Rewrite("igshid", Rewrite("youtu.be", Rewrite("wikipedia", tok)))
                IN  /\ \A k \in 1..Len(REWRITES) : Rewrite(REWRITES[k], once[k]) = once[k]
                    /\ eOut = Some(AddDateAndBody(FormatLink(inOrder, StrippedSubject(eMsg)),
                                                  eMsg.date,
                                                  IF r = <<>> THEN None ELSE Some(Tail(r))))

\* the rules are applied once each and in order (the half of C13 that holds)
C13_RulesInOrder ==
    fpc = "returned" /\ ~IsNone(eOut) =>
        \A l \in Leads : \A r \in Rests :
            BodyIs(l, r) =>
                eOut = Some(AddDateAndBody(
                               FormatLink(Rewrite("igshid", Rewrite("youtu.be",
                                              Rewrite("wikipedia", StripAngles(l)))),
                                          StrippedSubject(eMsg)),
                               eMsg.date,
                               IF r = <<>> THEN None ELSE Some(Tail(r))))

\* the http(s) lead tokens that are no Wikipedia links
OtherLinks == {L_Plain, L_Angle, L_Short, L_Igshid, L_Bracket, L_Igshid2}

\* what the rewrite rules make of them, angle brackets off
RewrittenLink(l) ==
    CASE l = L_Plain -> L_Plain
      [] l = L_Angle -> <<"h", "t", "t", "p", "s", ":", "/", "/", "b", "/", "c">>
      [] l = L_Short -> <<"h", "t", "t", "p", "s", ":", "/", "/", "w", "w", "w", ".", "y", "o", "u", "t", "u", "b", "e", ".", "c", "o", "m", "/", "w", "a", "t", "c", "h", "?", "v", "=", "v", "1">>
      [] l = L_Igshid -> <<"h", "t", "t", "p", "s", ":", "/", "/", "i", "/", "p">>
      [] l = L_Bracket -> L_Bracket
      [] l = L_Igshid2 -> <<"h", "t", "t", "p", ":", "/", "/", "i", "/", "p", "?", "i", "g", "s", "h", "i", "d", "=", "b">>

\* the subject with brackets in it, as sent and trimmed
SubjectBracket == <<" ", "[", "s", "]", " ">>

T_SubjectBracket == <<"[", "s", "]">>

\* the entry for the link `link` of another site under a subject: the timestamp
\* marker in front when there is a date, the rest of the body behind
OtherEntry(link, rest) ==
    (IF IsNone(eMsg.date) THEN <<>> ELSE S_At \o eMsg.date[1] \o <<"}", "}", " ">>)
        \o link \o rest

\* the token and the trimmed subject, a space between
Pair(l) ==
    RewrittenLink(l) \o <<" ">>
        \o (IF eMsg.subject = Some(SubjectBracket) THEN T_SubjectBracket ELSE SubjectFooBar)

\* C17 (as stated): a link of another site under a subject is rendered
\* "[token subject]" exactly when the rewritten token holds no "[" or "]", and
\* "token subject" exactly when it holds one; brackets in the subject change nothing.
C17_BracketsUnlessInToken ==
    fpc = "returned" /\ eMsg.subject \in NonEmptySubjects =>
        \A l \in OtherLinks : \A r \in Rests :
            BodyIs(l, r) =>
                eOut = Some(OtherEntry(IF l = L_Bracket THEN Pair(l)
                                       ELSE <<"[">> \o Pair(l) \o <<"]">>, r))

\* C17 (amended): it is rendered "[token subject]" exactly when neither the
\* rewritten token nor the trimmed subject holds a "[" or "]", and
\* "token subject" when either does.
C17_BracketsUnlessInTokenOrSubject ==
    fpc = "returned" /\ eMsg.subject \in NonEmptySubjects =>
        \A l \in OtherLinks : \A r \in Rests :
            BodyIs(l, r) =>
                eOut = Some(OtherEntry(IF l = L_Bracket \/ eMsg.subject = Some(SubjectBracket)
                                       THEN Pair(l)
                                       ELSE <<"[">> \o Pair(l) \o <<"]">>, r))

\* C17 witness: a token without brackets under the subject "[s]" is rendered
\* without brackets.
C17_Witness ==
    /\ fpc = "returned"
    /\ BodyIs(L_Plain, <<>>)
    /\ eMsg.subject = Some(SubjectBracket)
    /\ IsNone(eMsg.date)
    /\ eOut = Some(<<"h", "t", "t", "p", ":", "/", "/", "a", " ", "[", "s", "]">>)

\* a token without brackets under a subject without brackets is bracketed
C17_BracketedReached ==
    /\ fpc = "returned"
    /\ BodyIs(L_Short, <<>>)
    /\ eMsg.subject = Some(SubjectFooBar)
    /\ IsNone(eMsg.date)
    /\ eOut = Some(<<"[">> \o <<"h", "t", "t", "p", "s", ":", "/", "/", "w", "w", "w", ".", "y", "o", "u", "t", "u", "b", "e", ".", "c", "o", "m", "/", "w", "a", "t", "c", "h", "?", "v", "=", "v", "1">> \o <<" ">> \o SubjectFooBar \o <<"]">>)

-----------------------------------------------------------------------------
(* LogScrobbler around _main (main) *)

\* the most records logged inside one with block
MaxRecords == 3

\* a log record: its level name, its message and what its exc_info holds ("none",
\* "HTTPError" for a urllib3.exceptions.HTTPError, "other" for another exception)
Record(levelname, msg, exc_info) ==
    [levelname |-> levelname, msg |-> msg, exc_info |-> exc_info]

SUCCESS_MESSAGES ==
    { <<"P", "a", "g", "e", " ", "[", "[", "R", "e", "a", "d", "i", "n", "g", " ", "l", "i", "s", "t", "]", "]", " ", "s", "a", "v", "e", "d">>,
      <<"N", "o", " ", "c", "h", "a", "n", "g", "e", "s", " ", "w", "e", "r", "e", " ", "n", "e", "e", "d", "e", "d", " ", "o", "n", " ", "[", "[", "R", "e", "a", "d", "i", "n", "g", " ", "l", "i", "s", "t", "]", "]">> }

S_ErrorForUri ==
    <<"A", "n", " ", "e", "r", "r", "o", "r", " ", "o", "c", "c", "u", "r", "r", "e", "d", " ", "f", "o", "r", " ", "u", "r", "i", " ">>

M_ErrorForUri ==
    <<"A", "n", " ", "e", "r", "r", "o", "r", " ", "o", "c", "c", "u", "r", "r", "e", "d", " ", "f", "o", "r", " ", "u", "r", "i", " ", "u">>

M_Boom == <<"b", "o", "o", "m">>

\* the records the run may log
LogRecords ==
    { Record("INFO", m, "none") : m \in SUCCESS_MESSAGES }
    \cup { Record("ERROR", M_ErrorForUri, "none"),
           Record("ERROR", M_Boom, "HTTPError"),
           Record("ERROR", M_Boom, "other"),
           Record("ERROR", M_Boom, "none"),
           Record("WARNING", M_ErrorForUri, "none") }

\* what pywikibot.output(f"{record.exc_info!r}") logs
ReprRecord == Record("INFO", <<"r", "e", "p", "r">>, "none")

\* mutant of is_network_error: the level of the record is not looked at
is_network_error_AnyLevel(record) ==
    \/ StartsWith(record.msg, S_ErrorForUri)
    \/ record.exc_info = "HTTPError"

\* LogScrobbler.is_network_error, its result
is_network_error(record) ==
    /\ record.levelname = "ERROR"
    /\ \/ StartsWith(record.msg, S_ErrorForUri)
       \/ record.exc_info = "HTTPError"

\* ... and what it logs on the way: the line 228 is reached by an ERROR record
\* that has exc_info, is no HTTPError and does not start with the uri text
ReprOutput(record) ==
    IF /\ record.levelname = "ERROR"
       /\ ~StartsWith(record.msg, S_ErrorForUri)
       /\ record.exc_info = "other"
    THEN <<ReprRecord>> ELSE <<>>

success_message_seen(recs) == \E i \in 1..Len(recs) : recs[i].msg \in SUCCESS_MESSAGES

\* purge_network_errors: the records kept
purge_network_errors(recs) == SelectSeq(recs, LAMBDA r : ~is_network_error(r))

\* ... and the lines is_network_error logs while the list is rebuilt
RECURSIVE PurgeOutput(_)
PurgeOutput(recs) ==
    IF Len(recs) = 0 THEN <<>> ELSE ReprOutput(Head(recs)) \o PurgeOutput(Tail(recs))

LogInit ==
    /\ RunIdle
    /\ FunIdle
    /\ lpc = "outside"
    /\ lFilter = FALSE
    /\ records = <<>>
    /\ logged = <<>>
    /\ emitted = <<>>
    /\ excType = FALSE

\* LogScrobbler.__enter__
LogEnter ==
    /\ lpc = "outside"
    /\ records' = <<>>
    /\ lFilter' = TRUE
    /\ lpc' = "active"
    /\ UNCHANGED <<logged, emitted, excType>>
    /\ UNCHANGED runVars
    /\ UNCHANGED funVars

\* the run logs a record: Logger.handle asks the filters, LogScrobbler.filter
\* keeps the record and answers False
LogRecord ==
    /\ lpc = "active"
    /\ Len(logged) < MaxRecords
    /\ \E r \in LogRecords :
          /\ logged' = Append(logged, r)
          /\ records' = IF lFilter THEN Append(records, r) ELSE records
          /\ emitted' = IF lFilter THEN emitted ELSE Append(emitted, r)
    /\ UNCHANGED <<lpc, lFilter, excType>>
    /\ UNCHANGED runVars
    /\ UNCHANGED funVars

\* LogScrobbler.__exit__, the with block having ended by an exception or not
LogExit ==
    /\ lpc = "active"
    /\ \E raised \in BOOLEAN :
          LET purge == ~raised /\ success_message_seen(records)
              kept == IF purge THEN purge_network_errors(records) ELSE records
              said == IF purge THEN PurgeOutput(records) ELSE <<>>
          IN  /\ excType' = raised
              /\ records' = kept
              /\ emitted' = emitted \o said \o kept
    /\ lFilter' = FALSE
    /\ lpc' = "exited"
    /\ UNCHANGED logged
    /\ UNCHANGED runVars
    /\ UNCHANGED funVars

LogNext ==
    \/ LogEnter
    \/ LogRecord
    \/ LogExit

SpecLog == LogInit /\ [][LogNext]_vars

\* the records of the model that are network errors
NetworkErrors ==
    { Record("ERROR", M_ErrorForUri, "none"), Record("ERROR", M_Boom, "HTTPError") }

\* the records of `recs` that are in the set S, in order
Only(recs, S) == SelectSeq(recs, LAMBDA r : r \in S)

\* C18: nothing logged inside the with block is emitted before the exit; at the
\* exit the filter is removed and the captured records are emitted once each, in
\* the order they were logged, less the network errors when the block raised
\* nothing and a success message was captured; no other record is left out.
C18_DeferredReplay ==
    /\ lpc = "active" => emitted = <<>> /\ records = logged /\ lFilter
    /\ lpc = "exited" =>
          /\ ~lFilter
          /\ Only(emitted, LogRecords) =
                IF ~excType /\ (\E i \in 1..Len(logged) : logged[i].msg \in SUCCESS_MESSAGES)
                THEN Only(logged, LogRecords \ NetworkErrors)
                ELSE logged

\* C18 witness: a network error, a WARNING with the same text and the success
\* message were captured; the block raised nothing; the error alone is left out.
C18_Witness ==
    /\ lpc = "exited"
    /\ ~excType
    /\ logged = << Record("ERROR", M_ErrorForUri, "none"),
                   Record("WARNING", M_ErrorForUri, "none"),
                   Record("INFO", <<"P", "a", "g", "e", " ", "[", "[", "R", "e", "a", "d", "i", "n", "g", " ", "l", "i", "s", "t", "]", "]", " ", "s", "a", "v", "e", "d">>, "none") >>
    /\ emitted = << logged[2], logged[3] >>

\* the same records are all replayed when the block raised
C18_RaisedReplaysAll ==
    /\ lpc = "exited"
    /\ excType
    /\ Len(logged) = 3
    /\ logged[1] \in NetworkErrors
    /\ logged[3].msg \in SUCCESS_MESSAGES
    /\ emitted = logged

====
